---- MODULE Spec2Model ----
(***************************************************************************)
(* A model of two parts of the operator-lifecycle-manager:                 *)
(*                                                                         *)
(*  - Operator.requirementStatus / permissionStatus                        *)
(*    (pkg/controller/operators/olm/requirements.go), which reports        *)
(*    whether the requirements declared by a ClusterServiceVersion are     *)
(*    satisfied in the cluster;                                            *)
(*  - PackageManifestStorage.List / Watch / nameFor / matches              *)
(*    (pkg/package-server/storage/packagemanifest/reststorage.go).         *)
(*                                                                         *)
(* Spec is the resolver; SpecStore is the request handlers of the storage,  *)
(* SpecWatch and FairSpecWatch the watchers that Watch starts.              *)
(***************************************************************************)
EXTENDS Integers, Sequences, FiniteSets, TLC

VARIABLES
    \* ---- resolver (requirements.go) ----
    csv,            \* the ClusterServiceVersion being checked
    discoveryErr,   \* TRUE when Discovery().ServerResources() returns an error
    pc,             \* position inside requirementStatus / permissionStatus
    i,              \* index of the loop at pc
    met,            \* requirementStatus: met
    statuses,       \* requirementStatus: statuses
    permMet,        \* permissionStatus: met
    statusesSet,    \* permissionStatus: statusesSet, a map keyed by saName
    \* ---- storage (reststorage.go) ----
    provItems,      \* the collection the PackageManifestProvider holds
    changes,        \* the number of changes the provider has made to it
    watchers,       \* the watchers created by Watch, by slot
    resp            \* the last request to List or Watch, with its response

rvars == <<csv, discoveryErr, pc, i, met, statuses, permMet, statusesSet>>

svars == <<provItems, changes, watchers, resp>>

vars == <<csv, discoveryErr, pc, i, met, statuses, permMet, statusesSet,
          provItems, changes, watchers, resp>>

-----------------------------------------------------------------------------
(* Bounds *)

\* The number of declarations of a workload: CRD descriptions, APIService
\* descriptions, permissions and policy rules, counted together.
MaxSize == 4

\* The number of requirements of a field selector.
MaxTerms == 2

\* The number of watchers.
MaxWatchers == 2

\* The number of changes the provider makes to its collection.
MaxChanges == 1

-----------------------------------------------------------------------------
(* Status values (v1alpha1) *)

RequirementStatusReasonPresent == "Present"
RequirementStatusReasonNotPresent == "NotPresent"
RequirementStatusReasonPresentNotSatisfied == "PresentNotSatisfied"
DependentStatusReasonSatisfied == "Satisfied"
DependentStatusReasonNotSatisfied == "NotSatisfied"

\* The zero value of v1alpha1.RequirementStatus.
ZeroRequirementStatus ==
    [group |-> "", version |-> "", kind |-> "", name |-> "", status |-> "",
     uuid |-> "", dependents |-> <<>>]

NamespaceAll == ""

-----------------------------------------------------------------------------
(* The cluster the resolver runs against.  It does not change during a     *)
(* call of requirementStatus.                                               *)

CRDNames == {"crdA", "crdB"}

\* CustomResourceDefinitions().Get(name): the CRDs that exist, with their UID.
ClusterCRDs == [crdA |-> "uid-crdA"]

\* The APIService descriptions a workload may declare.
APIDescs ==
    { [name |-> "g1", version |-> "v1", kind |-> "K1"],    \* registered and available
      [name |-> "g1", version |-> "v1", kind |-> "K9"],    \* group-version without the kind
      [name |-> "g9", version |-> "v1", kind |-> "K1"],    \* no such group-version
      [name |-> "g2", version |-> "v1", kind |-> "K2"],    \* no APIService object
      [name |-> "g3", version |-> "v1", kind |-> "K3"] }   \* APIService not available

\* Discovery().ServerResources() when it does not fail.
ServerResources ==
    << [groupVersion |-> "v1",    kinds |-> {"Pod", "K1"}],
       [groupVersion |-> "g1/v1", kinds |-> {"K1"}],
       [groupVersion |-> "g2/v1", kinds |-> {"K2"}],
       [groupVersion |-> "g3/v1", kinds |-> {"K3"}] >>

\* APIServices().Get(apiName): the APIService objects that exist.
ClusterAPIServices ==
    [ n \in {"v1.g1", "v1.g3", "v1.g9"} |->
        [uid |-> CASE n = "v1.g1" -> "uid-v1.g1"
                   [] n = "v1.g3" -> "uid-v1.g3"
                   [] OTHER       -> "uid-v1.g9",
         available |-> n # "v1.g3"] ]

SANames == {"saA", "saB", "saX"}

\* GetServiceAccount(namespace, name): the service accounts that exist.
ClusterServiceAccounts == {"saA", "saB"}

RuleNames == {"rOK", "rNo", "rErr", "rBad"}

-----------------------------------------------------------------------------
(* String formatting *)

\* fmt.Sprintf("%s.%s", version, name)
SprintfDot(version, name) ==
    CASE <<version, name>> = <<"v1", "g1">> -> "v1.g1"
      [] <<version, name>> = <<"v1", "g2">> -> "v1.g2"
      [] <<version, name>> = <<"v1", "g3">> -> "v1.g3"
      [] <<version, name>> = <<"v1", "g9">> -> "v1.g9"

\* metav1.GroupVersion.String(): the version alone for the empty group.
GroupVersionString(group, version) ==
    IF group = "" THEN version
    ELSE CASE <<group, version>> = <<"g1", "v1">> -> "g1/v1"
           [] <<group, version>> = <<"g2", "v1">> -> "g2/v1"
           [] <<group, version>> = <<"g3", "v1">> -> "g3/v1"
           [] <<group, version>> = <<"g9", "v1">> -> "g9/v1"

\* json.Marshal(rule) and fmt.Sprintf("rule raw:%s", marshalled)
Marshal(rule) ==
    [err |-> rule = "rBad",
     message |-> CASE rule = "rOK"  -> "rule raw:rOK"
                   [] rule = "rNo"  -> "rule raw:rNo"
                   [] rule = "rErr" -> "rule raw:rErr"
                   [] OTHER         -> ""]

\* ruleChecker.RuleSatisfied(sa, namespace, rule) -> (satisfied, err)
RuleSatisfied(sa, namespace, rule) ==
    [satisfied |-> rule \in {"rOK", "rBad"}, err |-> rule = "rErr"]

-----------------------------------------------------------------------------
(* Workloads *)

SeqsOfLen(S, n) == [1..n -> S]

SeqsUpTo(S, n) == UNION { SeqsOfLen(S, k) : k \in 0..n }

\* A list of install.StrategyDeploymentPermissions written flat: each service
\* account name followed by the rules of its permission.
Tokens == SANames \cup RuleNames

FlatPermissions(n) == { f \in SeqsOfLen(Tokens, n) : n = 0 \/ f[1] \in SANames }

RECURSIVE ParsePermissions(_, _, _)
ParsePermissions(flat, k, acc) ==
    IF k > Len(flat) THEN acc
    ELSE IF flat[k] \in SANames
         THEN ParsePermissions(flat, k + 1,
                  Append(acc, [serviceAccountName |-> flat[k], rules |-> <<>>]))
         ELSE ParsePermissions(flat, k + 1,
                  [acc EXCEPT ![Len(acc)].rules = Append(@, flat[k])])

\* csv.Spec.InstallStrategy, by what UnmarshalStrategy makes of it
Strategies(b) ==
    { [kind |-> k, permissions |-> <<>>, clusterPermissions |-> <<>>] :
        k \in {"undecodable", "notDeployment"} }
    \cup
    UNION { UNION { { [kind |-> "deployment",
                       permissions |-> ParsePermissions(p, 1, <<>>),
                       clusterPermissions |-> ParsePermissions(c, 1, <<>>)] :
                       p \in FlatPermissions(np), c \in FlatPermissions(nc) } :
                    nc \in 0..(b - np) } :
            np \in 0..b }

-----------------------------------------------------------------------------
(* requirementStatus: the CRD and APIService loops *)

\* One pass of the loop over csv.GetAllCRDDescriptions(): the status appended
\* for the description named name, and whether met stays as it is.
CRDStatus(name) ==
    LET status == [ZeroRequirementStatus EXCEPT
                      !.group = "apiextensions.k8s.io",
                      !.version = "v1beta1",
                      !.kind = "CustomResourceDefinition",
                      !.name = name]
    IN  IF name \notin DOMAIN ClusterCRDs
        THEN [status |-> [status EXCEPT !.status = RequirementStatusReasonNotPresent],
              ok |-> FALSE]
        ELSE [status |-> [status EXCEPT !.status = RequirementStatusReasonPresent,
                                        !.uuid = ClusterCRDs[name]],
              ok |-> TRUE]

\* isGVKRegistered with the kind left out of the comparison.
isGVKRegisteredAnyKind(discoveryFails, group, version, kind) ==
    IF discoveryFails THEN "discovery error"
    ELSE IF \E g \in 1..Len(ServerResources) :
               ServerResources[g].groupVersion = GroupVersionString(group, version)
         THEN "nil"
         ELSE "GroupVersionKindNotFoundError"

\* isGVKRegistered: the error it returns, "nil" for none.
isGVKRegistered(discoveryFails, group, version, kind) ==
    IF discoveryFails THEN "discovery error"
    ELSE IF \E g \in 1..Len(ServerResources) :
               /\ ServerResources[g].groupVersion = GroupVersionString(group, version)
               /\ kind \in ServerResources[g].kinds
         THEN "nil"
         ELSE "GroupVersionKindNotFoundError"

\* One pass of the loop over csv.GetAllAPIServiceDescriptions().
APIServiceStatus(discoveryFails, r) ==
    LET apiName == SprintfDot(r.version, r.name)
        status == [ZeroRequirementStatus EXCEPT
                      !.group = "apiregistration.k8s.io",
                      !.version = "v1",
                      !.kind = "APIService",
                      !.name = apiName]
        notPresent == [status |-> [status EXCEPT !.status = "NotPresent"], ok |-> FALSE]
    IN  IF isGVKRegistered(discoveryFails, r.name, r.version, r.kind) # "nil"
        THEN notPresent
        ELSE IF apiName \notin DOMAIN ClusterAPIServices
        THEN notPresent
        ELSE IF ~ClusterAPIServices[apiName].available
        THEN notPresent
        ELSE [status |-> [status EXCEPT !.status = "Present",
                                        !.uuid = ClusterAPIServices[apiName].uid],
              ok |-> TRUE]

-----------------------------------------------------------------------------
(* permissionStatus *)

\* install.StrategyResolver.UnmarshalStrategy and the type assertion that
\* follows it: whether the strategy is a StrategyDetailsDeployment.
UnmarshalStrategy(strategy) ==
    [err |-> strategy.kind = "undecodable",
     ok |-> strategy.kind = "deployment"]

NewDependent ==
    [group |-> "rbac.authorization.k8s.io", kind |-> "PolicyRule",
     version |-> "v1beta1", status |-> "", message |-> ""]

\* CheckRule without the downgrade of the requirement's status.
CheckRuleKeepStatus(acc, sa, namespace, rule) ==
    LET m == Marshal(rule)
        r == RuleSatisfied(sa, namespace, rule)
    IN  IF m.err
        THEN [acc EXCEPT !.status.dependents =
                  Append(@, [NewDependent EXCEPT
                                !.status = DependentStatusReasonNotSatisfied,
                                !.message = "rule unmarshallable"])]
        ELSE IF r.err \/ ~r.satisfied
        THEN [acc EXCEPT
                  !.met = FALSE,
                  !.status.dependents =
                      Append(@, [NewDependent EXCEPT
                                    !.message = m.message,
                                    !.status = DependentStatusReasonNotSatisfied])]
        ELSE [acc EXCEPT
                  !.status.dependents =
                      Append(@, [NewDependent EXCEPT
                                    !.message = m.message,
                                    !.status = DependentStatusReasonSatisfied])]

\* One pass of the loop over perm.Rules.  acc holds the status of the service
\* account and met.
CheckRule(acc, sa, namespace, rule) ==
    LET m == Marshal(rule)
        r == RuleSatisfied(sa, namespace, rule)
    IN  IF m.err
        THEN [acc EXCEPT !.status.dependents =
                  Append(@, [NewDependent EXCEPT
                                !.status = DependentStatusReasonNotSatisfied,
                                !.message = "rule unmarshallable"])]
        ELSE IF r.err \/ ~r.satisfied
        THEN [acc EXCEPT
                  !.met = FALSE,
                  !.status.status = RequirementStatusReasonPresentNotSatisfied,
                  !.status.dependents =
                      Append(@, [NewDependent EXCEPT
                                    !.message = m.message,
                                    !.status = DependentStatusReasonNotSatisfied])]
        ELSE [acc EXCEPT
                  !.status.dependents =
                      Append(@, [NewDependent EXCEPT
                                    !.message = m.message,
                                    !.status = DependentStatusReasonSatisfied])]

RECURSIVE CheckRules(_, _, _, _, _)
CheckRules(acc, sa, namespace, rules, k) ==
    IF k > Len(rules) THEN acc
    ELSE CheckRules(CheckRule(acc, sa, namespace, rules[k]), sa, namespace, rules, k + 1)

\* statusesSet[saName] = status
MapPut(set, key, value) ==
    [x \in (DOMAIN set) \cup {key} |-> IF x = key THEN value ELSE set[x]]

\* The status a permission starts from: the stored one, or a new one.
StartStatus(set, saName) ==
    IF saName \notin DOMAIN set
    THEN [ZeroRequirementStatus EXCEPT
             !.group = "",
             !.version = "v1",
             !.kind = "ServiceAccount",
             !.name = saName,
             !.status = RequirementStatusReasonPresent]
    ELSE set[saName]

\* CheckPermission where a missing service account is not recorded.
CheckPermissionIgnoreMissing(set, metIn, perm, namespace) ==
    LET saName == perm.serviceAccountName
        status == StartStatus(set, saName)
        acc    == CheckRules([status |-> status, met |-> metIn], saName, namespace,
                             perm.rules, 1)
    IN  [set |-> MapPut(set, saName, acc.status), met |-> acc.met]

\* One pass of the loop of checkPermissions: the map and met after it.
CheckPermission(set, metIn, perm, namespace) ==
    LET saName == perm.serviceAccountName
        status == StartStatus(set, saName)
    IN  IF saName \notin ClusterServiceAccounts
        THEN [set |-> MapPut(set, saName,
                          [status EXCEPT !.status = RequirementStatusReasonNotPresent]),
              met |-> FALSE]
        ELSE LET acc == CheckRules([status |-> status, met |-> metIn], saName,
                                   namespace, perm.rules, 1)
             IN  [set |-> MapPut(set, saName, acc.status), met |-> acc.met]

\* make([]v1alpha1.RequirementStatus, n)
Make(n) == [k \in 1..n |-> ZeroRequirementStatus]

\* The orders in which a range over the map may visit its keys.
MapOrders(set) ==
    { o \in SeqsOfLen(DOMAIN set, Cardinality(DOMAIN set)) :
        \A a, b \in DOMAIN o : a # b => o[a] # o[b] }

\* The slice permissionStatus returns when the range visits the keys in order.
CollectStatuses(set, order) ==
    Make(Cardinality(DOMAIN set)) \o [k \in DOMAIN order |-> set[order[k]]]

\* Combine with the result of permissionStatus left out.
CombineWithoutPermissions(m, permissionsMet) == m

\* met = met && permissionsMet
Combine(m, permissionsMet) == m /\ permissionsMet

-----------------------------------------------------------------------------
(* The storage: selectors, manifests, requests *)

\* fields.Selector: nil, or the requirements of the selector in order.  A
\* requirement is [field, op, value] with op "=" (hasTerm) or "!=" (notHasTerm).
FieldTerms ==
    { [field |-> "metadata.name", op |-> "=",  value |-> "pkg-a"],
      [field |-> "metadata.name", op |-> "!=", value |-> "pkg-a"],
      [field |-> "spec.x",        op |-> "=",  value |-> "1"] }

NilFieldSelector == [isNil |-> TRUE, terms |-> <<>>]

FieldSelectors ==
    {NilFieldSelector}
    \cup { [isNil |-> FALSE, terms |-> ts] : ts \in SeqsUpTo(FieldTerms, MaxTerms) }

\* labels.Selector: nil, or a set of key = value requirements.
\* labels.Everything() has none.
LabelsEverything == {}

NilLabelSelector == [isNil |-> TRUE, reqs |-> {}]

LabelSelectors ==
    { NilLabelSelector,
      [isNil |-> FALSE, reqs |-> {}],
      [isNil |-> FALSE, reqs |-> {<<"tier", "stable">>}] }

\* labels.Selector.Matches(labels.Set(m.GetLabels()))
LabelsMatch(ls, labelSet) == ls \subseteq labelSet

\* metainternalversion.ListOptions
ListOptions == [fieldSelector : FieldSelectors, labelSelector : LabelSelectors]

NoOptions == [fieldSelector |-> NilFieldSelector, labelSelector |-> NilLabelSelector]

\* genericapirequest.NamespaceValue(ctx)
RequestNamespaces == {NamespaceAll, "ns1"}

\* The PackageManifests the provider starts with, in the order it lists them.
ProviderCollection ==
    << [name |-> "pkg-a", namespace |-> "ns1", labels |-> {<<"tier", "stable">>}],
       [name |-> "pkg-b", namespace |-> "ns1", labels |-> {<<"tier", "stable">>}],
       [name |-> "pkg-a", namespace |-> "ns2", labels |-> {<<"tier", "beta">>}],
       [name |-> "pkg-b", namespace |-> "ns2", labels |-> {<<"tier", "stable">>}],
       [name |-> "pkg-a", namespace |-> "ns3", labels |-> {}] >>

NoError == [msg |-> "", field |-> ""]

ProviderError == [msg |-> "provider error", field |-> ""]

NoRequest ==
    [op |-> "none", namespace |-> NamespaceAll, options |-> NoOptions,
     err |-> NoError, items |-> <<>>, providerCalled |-> FALSE, watcher |-> 0]

\* A slot that holds no watcher.  events is what the watcher has sent on its
\* channel, feed the changes of the provider it has not handled yet.
NoWatcher ==
    [state |-> "None", namespace |-> NamespaceAll, name |-> "",
     labelSelector |-> LabelsEverything, running |-> FALSE, cancelled |-> FALSE,
     events |-> <<>>, closed |-> FALSE, subscribed |-> FALSE, feed |-> <<>>,
     provCalls |-> 0]

StoreIdle ==
    /\ provItems = ProviderCollection
    /\ changes = 0
    /\ watchers = [w \in 1..MaxWatchers |-> NoWatcher]
    /\ resp = NoRequest

-----------------------------------------------------------------------------
(* The steps of requirementStatus.  i counts the declarations handled so  *)
(* far plus one: the CRD descriptions, then the APIService descriptions,   *)
(* then Permissions, then ClusterPermissions.                              *)

NumCRDs == Len(csv.crds)
NumAPIs == Len(csv.apis)
NumPerms == Len(csv.strategy.permissions)
NumClusterPerms == Len(csv.strategy.clusterPermissions)

CSVNamespace == "ns1"

Init ==
    /\ \E nc \in 0..MaxSize : \E na \in 0..(MaxSize - nc) :
         csv \in [crds : SeqsOfLen(CRDNames, nc), apis : SeqsOfLen(APIDescs, na),
                  strategy : Strategies(MaxSize - nc - na)]
    /\ discoveryErr \in BOOLEAN
    /\ pc = "requirements"
    /\ i = 1
    /\ met = TRUE
    /\ statuses = <<>>
    /\ permMet = TRUE
    /\ statusesSet = [x \in {} |-> ZeroRequirementStatus]
    /\ StoreIdle

CheckCRD ==
    /\ pc = "requirements"
    /\ i <= NumCRDs
    /\ LET r == CRDStatus(csv.crds[i])
       IN  /\ statuses' = Append(statuses, r.status)
           /\ met' = (met /\ r.ok)
    /\ i' = i + 1
    /\ UNCHANGED <<csv, discoveryErr, pc, permMet, statusesSet>>
    /\ UNCHANGED svars

CheckAPIService ==
    /\ pc = "requirements"
    /\ i > NumCRDs
    /\ i <= NumCRDs + NumAPIs
    /\ LET r == APIServiceStatus(discoveryErr, csv.apis[i - NumCRDs])
       IN  /\ statuses' = Append(statuses, r.status)
           /\ met' = (met /\ r.ok)
    /\ i' = i + 1
    /\ UNCHANGED <<csv, discoveryErr, pc, permMet, statusesSet>>
    /\ UNCHANGED svars

\* permissionStatus returns (false, nil); requirementStatus returns.
StrategyNotDeployment ==
    /\ pc = "requirements"
    /\ i = NumCRDs + NumAPIs + 1
    /\ LET s == UnmarshalStrategy(csv.strategy) IN s.err \/ ~s.ok
    /\ permMet' = FALSE
    /\ met' = Combine(met, FALSE)
    /\ pc' = "done"
    /\ UNCHANGED <<csv, discoveryErr, i, statuses, statusesSet>>
    /\ UNCHANGED svars

\* checkPermissions(strategyDetailsDeployment.Permissions, csv.GetNamespace())
CheckNamespacedPermission ==
    /\ pc = "requirements"
    /\ i > NumCRDs + NumAPIs
    /\ i <= NumCRDs + NumAPIs + NumPerms
    /\ LET s == UnmarshalStrategy(csv.strategy) IN ~s.err /\ s.ok
    /\ LET r == CheckPermission(statusesSet, permMet,
                    csv.strategy.permissions[i - NumCRDs - NumAPIs], CSVNamespace)
       IN  /\ statusesSet' = r.set
           /\ permMet' = r.met
    /\ i' = i + 1
    /\ UNCHANGED <<csv, discoveryErr, pc, met, statuses>>
    /\ UNCHANGED svars

\* checkPermissions(strategyDetailsDeployment.ClusterPermissions, metav1.NamespaceAll)
CheckClusterPermission ==
    /\ pc = "requirements"
    /\ i > NumCRDs + NumAPIs + NumPerms
    /\ i <= NumCRDs + NumAPIs + NumPerms + NumClusterPerms
    /\ LET s == UnmarshalStrategy(csv.strategy) IN ~s.err /\ s.ok
    /\ LET r == CheckPermission(statusesSet, permMet,
                    csv.strategy.clusterPermissions[i - NumCRDs - NumAPIs - NumPerms],
                    NamespaceAll)
       IN  /\ statusesSet' = r.set
           /\ permMet' = r.met
    /\ i' = i + 1
    /\ UNCHANGED <<csv, discoveryErr, pc, met, statuses>>
    /\ UNCHANGED svars

\* permissionStatus collects the map into a slice; requirementStatus appends
\* it to its statuses and returns.
ReturnStatuses ==
    /\ pc = "requirements"
    /\ i = NumCRDs + NumAPIs + NumPerms + NumClusterPerms + 1
    /\ LET s == UnmarshalStrategy(csv.strategy) IN ~s.err /\ s.ok
    /\ \E order \in MapOrders(statusesSet) :
         statuses' = statuses \o CollectStatuses(statusesSet, order)
    /\ met' = Combine(met, permMet)
    /\ pc' = "done"
    /\ UNCHANGED <<csv, discoveryErr, i, permMet, statusesSet>>
    /\ UNCHANGED svars

Next ==
    \/ CheckCRD
    \/ CheckAPIService
    \/ StrategyNotDeployment
    \/ CheckNamespacedPermission
    \/ CheckClusterPermission
    \/ ReturnStatuses

Spec == Init /\ [][Next]_vars

-----------------------------------------------------------------------------
(* reststorage.go: nameFor, matches, List, Watch *)

\* fields.Everything()
FieldsEverything == [isNil |-> FALSE, terms |-> <<>>]

\* fields.Selector.RequiresExactMatch(field): the value of the first "="
\* requirement on the field.
RequiresExactMatch(fs, field) ==
    LET hits == { k \in DOMAIN fs.terms :
                    fs.terms[k].op = "=" /\ fs.terms[k].field = field }
    IN  IF hits = {}
        THEN [value |-> "", found |-> FALSE]
        ELSE [value |-> fs.terms[CHOOSE k \in hits : \A j \in hits : k <= j].value,
              found |-> TRUE]

\* fields.Selector.Empty()
Empty(fs) == fs.terms = <<>>

nameFor(fsIn) ==
    LET fs == IF fsIn.isNil THEN FieldsEverything ELSE fsIn
        m  == RequiresExactMatch(fs, "metadata.name")
    IN  IF m.found
        THEN [name |-> m.value, err |-> NoError]
        ELSE IF ~Empty(fs)
        THEN [name |-> "",
              err |-> [msg |-> "field label not supported", field |-> fs.terms[1].field]]
        ELSE [name |-> "", err |-> NoError]

\* matches with the namespace left out of the comparison.
matchesAnyNamespace(m, name, namespace, ls) ==
    LET name1 == IF name = "" THEN m.name ELSE name
    IN  LabelsMatch(ls, m.labels) /\ m.name = name1

matches(m, name, namespace, ls) ==
    LET name1      == IF name = "" THEN m.name ELSE name
        namespace1 == IF namespace = NamespaceAll THEN m.namespace ELSE namespace
    IN  LabelsMatch(ls, m.labels) /\ m.name = name1 /\ m.namespace = namespace1

\* The loop of List over res.Items.
FilterItems(items, name, namespace, ls) ==
    SelectSeq(items, LAMBDA m : matches(m, name, namespace, ls))

\* labelSelector := labels.Everything(), replaced by options.LabelSelector
\* when that is not nil.
LabelSelectorOf(options) ==
    IF options.labelSelector.isNil THEN LabelsEverything ELSE options.labelSelector.reqs

\* PackageManifestStorage.List.  prov.List(namespace) fails when provFails,
\* and returns the provider's collection otherwise.
List(namespace, options, provFails) ==
    /\ resp.op = "none"
    /\ LET labelSelector == LabelSelectorOf(options)
           n == nameFor(options.fieldSelector)
           r == [NoRequest EXCEPT !.op = "List", !.namespace = namespace,
                                  !.options = options]
       IN  resp' = IF n.err # NoError
                   THEN [r EXCEPT !.err = n.err]
                   ELSE IF provFails
                   THEN [r EXCEPT !.err = ProviderError, !.providerCalled = TRUE]
                   ELSE [r EXCEPT !.providerCalled = TRUE,
                                  !.items = FilterItems(provItems, n.name, namespace,
                                                        labelSelector)]
    /\ UNCHANGED <<provItems, changes, watchers>>
    /\ UNCHANGED rvars

\* Watch without the start of watcher.Run.
WatchWithoutRun(w, namespace, options) ==
    /\ resp.op = "none"
    /\ watchers[w].state = "None"
    /\ \A v \in 1..(w - 1) : watchers[v].state # "None"
    /\ LET n == nameFor(options.fieldSelector)
           r == [NoRequest EXCEPT !.op = "Watch", !.namespace = namespace,
                                  !.options = options]
       IN  IF n.err # NoError
           THEN /\ resp' = [r EXCEPT !.err = n.err]
                /\ UNCHANGED watchers
           ELSE /\ resp' = [r EXCEPT !.watcher = w]
                /\ watchers' = [watchers EXCEPT ![w] =
                       [NoWatcher EXCEPT !.state = "Initializing",
                                         !.namespace = namespace,
                                         !.name = n.name,
                                         !.labelSelector = LabelSelectorOf(options)]]
    /\ UNCHANGED <<provItems, changes>>
    /\ UNCHANGED rvars

\* PackageManifestStorage.Watch: NewWatcher into the free slot w, and
\* go watcher.Run(ctx).
Watch(w, namespace, options) ==
    /\ resp.op = "none"
    /\ watchers[w].state = "None"
    /\ \A v \in 1..(w - 1) : watchers[v].state # "None"
    /\ LET n == nameFor(options.fieldSelector)
           r == [NoRequest EXCEPT !.op = "Watch", !.namespace = namespace,
                                  !.options = options]
       IN  IF n.err # NoError
           THEN /\ resp' = [r EXCEPT !.err = n.err]
                /\ UNCHANGED watchers
           ELSE /\ resp' = [r EXCEPT !.watcher = w]
                /\ watchers' = [watchers EXCEPT ![w] =
                       [NoWatcher EXCEPT !.state = "Initializing",
                                         !.namespace = namespace,
                                         !.name = n.name,
                                         !.labelSelector = LabelSelectorOf(options),
                                         !.running = TRUE]]
    /\ UNCHANGED <<provItems, changes>>
    /\ UNCHANGED rvars

\* The resolver at rest, for the specifications of the storage.
ResolverIdle ==
    /\ csv = [crds |-> <<>>, apis |-> <<>>,
              strategy |-> [kind |-> "deployment", permissions |-> <<>>,
                            clusterPermissions |-> <<>>]]
    /\ discoveryErr = FALSE
    /\ pc = "idle"
    /\ i = 1
    /\ met = TRUE
    /\ statuses = <<>>
    /\ permMet = TRUE
    /\ statusesSet = [x \in {} |-> ZeroRequirementStatus]

\* The response goes back to the client, which may send its next request.
Reply ==
    /\ resp.op # "none"
    /\ resp' = NoRequest
    /\ UNCHANGED <<provItems, changes, watchers>>
    /\ UNCHANGED rvars

InitStore == ResolverIdle /\ StoreIdle

ListRequest ==
    \E namespace \in RequestNamespaces, options \in ListOptions, provFails \in BOOLEAN :
        List(namespace, options, provFails)

WatchRequest ==
    \E w \in 1..MaxWatchers, namespace \in RequestNamespaces, options \in ListOptions :
        Watch(w, namespace, options)

NextStore == ListRequest \/ WatchRequest \/ Reply

\* The request handlers of the storage; the watchers they start do not run.
SpecStore == InitStore /\ [][NextStore]_vars

-----------------------------------------------------------------------------
(* The watcher that Watch starts: Initializing, Streaming, Closed *)

WatchEvent(type, m) == [type |-> type, object |-> m]

WatcherMatches(w, m) ==
    matches(m, watchers[w].name, watchers[w].namespace, watchers[w].labelSelector)

\* Run, first part: the snapshot of the matching manifests goes out as Added
\* events, and the watcher subscribes to the feed of the provider.
WatcherInit(w) ==
    /\ watchers[w].state = "Initializing"
    /\ watchers[w].running
    /\ LET snapshot == FilterItems(provItems, watchers[w].name, watchers[w].namespace,
                                   watchers[w].labelSelector)
       IN  watchers' = [watchers EXCEPT
               ![w].state = "Streaming",
               ![w].events = [k \in DOMAIN snapshot |-> WatchEvent("ADDED", snapshot[k])],
               ![w].subscribed = TRUE,
               ![w].provCalls = @ + 1]
    /\ UNCHANGED <<provItems, changes, resp>>
    /\ UNCHANGED rvars

\* Run, streaming: the next change of the feed is filtered and, when it
\* matches, sent on the channel of the watcher.
WatcherDeliver(w) ==
    /\ watchers[w].state = "Streaming"
    /\ watchers[w].running
    /\ watchers[w].feed # <<>>
    /\ LET e == Head(watchers[w].feed)
       IN  watchers' = [watchers EXCEPT
               ![w].feed = Tail(@),
               ![w].events = IF WatcherMatches(w, e.object) THEN Append(@, e) ELSE @]
    /\ UNCHANGED <<provItems, changes, resp>>
    /\ UNCHANGED rvars

\* The state of a watcher once it is closed: its channel is closed and
\* released with what it still held, and so is its subscription.
Closed(watcher) ==
    [watcher EXCEPT !.state = "Closed", !.closed = TRUE, !.subscribed = FALSE,
                    !.feed = <<>>, !.running = FALSE, !.events = <<>>]

\* Run sees the cancellation of its context and returns.
WatcherClose(w) ==
    /\ watchers[w].state \in {"Initializing", "Streaming"}
    /\ watchers[w].running
    /\ watchers[w].cancelled
    /\ watchers' = [watchers EXCEPT ![w] = Closed(@)]
    /\ UNCHANGED <<provItems, changes, resp>>
    /\ UNCHANGED rvars

\* The feed of the provider ends.
FeedTerminate(w) ==
    /\ watchers[w].state = "Streaming"
    /\ watchers[w].running
    /\ watchers' = [watchers EXCEPT ![w] = Closed(@)]
    /\ UNCHANGED <<provItems, changes, resp>>
    /\ UNCHANGED rvars

\* The caller cancels the context it gave to Watch.
Cancel(w) ==
    /\ watchers[w].state \in {"Initializing", "Streaming"}
    /\ ~watchers[w].cancelled
    /\ watchers' = [watchers EXCEPT ![w].cancelled = TRUE]
    /\ UNCHANGED <<provItems, changes, resp>>
    /\ UNCHANGED rvars

RemoveAt(s, k) == SubSeq(s, 1, k - 1) \o SubSeq(s, k + 1, Len(s))

\* The changes the provider may make: the event and the collection after it.
ProviderChanges ==
    { [event |-> WatchEvent("DELETED", provItems[k]), items |-> RemoveAt(provItems, k)] :
        k \in { j \in DOMAIN provItems :
                  provItems[j].name = "pkg-a" /\ provItems[j].namespace = "ns1" } }
    \cup
    { [event |-> WatchEvent("MODIFIED", [provItems[k] EXCEPT !.labels = {<<"tier", "beta">>}]),
       items |-> [provItems EXCEPT ![k].labels = {<<"tier", "beta">>}]] :
        k \in { j \in DOMAIN provItems :
                  provItems[j].namespace = "ns2"
                  /\ provItems[j].labels = {<<"tier", "stable">>} } }

\* The provider changes its collection and feeds the change to its subscribers.
ProviderChange ==
    /\ changes < MaxChanges
    /\ \E c \in ProviderChanges :
         /\ provItems' = c.items
         /\ watchers' = [w \in DOMAIN watchers |->
                IF watchers[w].subscribed
                THEN [watchers[w] EXCEPT !.feed = Append(@, c.event)]
                ELSE watchers[w]]
    /\ changes' = changes + 1
    /\ UNCHANGED resp
    /\ UNCHANGED rvars

\* The Watch requests of the specification of the watchers: one for
\* everything, one for pkg-a with the label tier = stable in ns1.
WatchRequests ==
    { [namespace |-> NamespaceAll, options |-> NoOptions],
      [namespace |-> "ns1",
       options |-> [fieldSelector |-> [isNil |-> FALSE,
                                       terms |-> <<[field |-> "metadata.name", op |-> "=",
                                                    value |-> "pkg-a"]>>],
                    labelSelector |-> [isNil |-> FALSE, reqs |-> {<<"tier", "stable">>}]]] }

WatchStart ==
    \E w \in 1..MaxWatchers, r \in WatchRequests : Watch(w, r.namespace, r.options)

NextWatch ==
    \/ WatchStart
    \/ Reply
    \/ ProviderChange
    \/ \E w \in 1..MaxWatchers :
         \/ WatcherInit(w)
         \/ WatcherDeliver(w)
         \/ WatcherClose(w)
         \/ FeedTerminate(w)
         \/ Cancel(w)

SpecWatch == InitStore /\ [][NextWatch]_vars

\* A running watcher observes the cancellation of its context.
FairSpecWatch ==
    SpecWatch /\ \A w \in 1..MaxWatchers : WF_vars(WatcherClose(w))

-----------------------------------------------------------------------------
(* What a workload declares, and what the cluster holds for it *)

Done == pc = "done"

Decodable == csv.strategy.kind = "deployment"

AllPermissions == csv.strategy.permissions \o csv.strategy.clusterPermissions

DeclaredIdentities ==
    { AllPermissions[k].serviceAccountName : k \in DOMAIN AllPermissions }

\* The identity names in the order of their first permission.
RECURSIVE FirstEncounters(_, _)
FirstEncounters(perms, seen) ==
    IF perms = <<>> THEN <<>>
    ELSE IF Head(perms).serviceAccountName \in seen
         THEN FirstEncounters(Tail(perms), seen)
         ELSE <<Head(perms).serviceAccountName>>
              \o FirstEncounters(Tail(perms), seen \cup {Head(perms).serviceAccountName})

\* The rules declared for sa: those of Permissions, then those of
\* ClusterPermissions.
RECURSIVE DeclaredRules(_, _)
DeclaredRules(perms, sa) ==
    IF perms = <<>> THEN <<>>
    ELSE (IF Head(perms).serviceAccountName = sa THEN Head(perms).rules ELSE <<>>)
         \o DeclaredRules(Tail(perms), sa)

\* The part of the returned statuses that permissionStatus produced.
PermissionStatuses == SubSeq(statuses, NumCRDs + NumAPIs + 1, Len(statuses))

EntriesFor(sa) ==
    { k \in DOMAIN PermissionStatuses :
        /\ PermissionStatuses[k].kind = "ServiceAccount"
        /\ PermissionStatuses[k].name = sa }

\* The message of the dependent recorded for a rule.
DependentMessage(rule) ==
    CASE rule = "rOK"  -> "rule raw:rOK"
      [] rule = "rNo"  -> "rule raw:rNo"
      [] rule = "rErr" -> "rule raw:rErr"
      [] rule = "rBad" -> "rule unmarshallable"

Messages(dependents) == [k \in DOMAIN dependents |-> dependents[k].message]

ExpectedMessages(sa) ==
    LET rules == DeclaredRules(AllPermissions, sa)
    IN  [k \in DOMAIN rules |-> DependentMessage(rules[k])]

\* The CRD named name exists in the cluster.
CRDExists(name) == name = "crdA"

\* Every check of the APIService description r succeeds: the kind is in
\* discovery, the APIService object exists and it is available.
APIChecksSucceed(r) ==
    /\ ~discoveryErr
    /\ r = [name |-> "g1", version |-> "v1", kind |-> "K1"]

-----------------------------------------------------------------------------
(* C1 *)

\* C1 (as claimed): with a decodable deployment strategy, the statuses that
\* permissionStatus returns hold exactly one entry per declared identity name
\* and no other entry, and the entry of an identity carries the dependents of
\* its namespaced permissions followed by those of its cluster permissions.
C1_OneStatusPerIdentity ==
    (Done /\ Decodable) =>
        /\ Len(PermissionStatuses) = Cardinality(DeclaredIdentities)
        /\ \A sa \in DeclaredIdentities : Cardinality(EntriesFor(sa)) = 1
        /\ \A sa \in DeclaredIdentities \cap ClusterServiceAccounts :
             \A k \in EntriesFor(sa) :
                Messages(PermissionStatuses[k].dependents) = ExpectedMessages(sa)

-----------------------------------------------------------------------------
(* C2 *)

StatusKey(s) == <<s.kind, s.name>>

ExpectedKeys ==
    [k \in 1..NumCRDs |-> <<"CustomResourceDefinition", csv.crds[k]>>]
    \o [k \in 1..NumAPIs |->
          <<"APIService",
            CASE csv.apis[k].name = "g1" -> "v1.g1"
              [] csv.apis[k].name = "g2" -> "v1.g2"
              [] csv.apis[k].name = "g3" -> "v1.g3"
              [] csv.apis[k].name = "g9" -> "v1.g9">>]
    \o (IF Decodable
        THEN LET ids == FirstEncounters(AllPermissions, {})
             IN  [k \in DOMAIN ids |-> <<"ServiceAccount", ids[k]>>]
        ELSE <<>>)

\* C2 (as claimed): the returned statuses are the CRD requirements in
\* declaration order, then the APIService requirements in declaration order,
\* then the identities in the order each was first encountered; the sequence
\* is a function of the workload and the cluster, so two calls agree.
C2_StatusOrder ==
    Done => [k \in DOMAIN statuses |-> StatusKey(statuses[k])] = ExpectedKeys

-----------------------------------------------------------------------------
(* C3 *)

AllPresentAndSatisfied ==
    \A k \in DOMAIN statuses :
        /\ statuses[k].status = RequirementStatusReasonPresent
        /\ \A d \in DOMAIN statuses[k].dependents :
              statuses[k].dependents[d].status = DependentStatusReasonSatisfied

\* C3 (as claimed): met is true if and only if every returned
\* RequirementStatus is Present and every dependent under it is Satisfied.
\* Stated for the workloads whose strategy decodes; the others, for which
\* permissionStatus returns false and no statuses, are the matter of C4.
C3_MetIffAllPresent == (Done /\ Decodable) => (met <=> AllPresentAndSatisfied)

-----------------------------------------------------------------------------
(* C4 *)

NoRequirements ==
    /\ csv.crds = <<>>
    /\ csv.apis = <<>>
    /\ AllPermissions = <<>>

\* C4 (as claimed): a workload with no declared requirement gets met = true
\* and no statuses, whatever its install strategy decodes to.
C4_Original == (Done /\ NoRequirements) => (met /\ statuses = <<>>)

\* C4 (amended): a workload with no declared requirement gets no statuses;
\* met is true when its install strategy decodes to a deployment strategy and
\* false when it does not.
C4_NoRequirements ==
    (Done /\ NoRequirements) => (statuses = <<>> /\ (met <=> Decodable))

C4_Witness == Done /\ NoRequirements /\ Decodable /\ met /\ statuses = <<>>

-----------------------------------------------------------------------------
(* C5 *)

\* C5: every CRD and APIService requirement has its status at its place in
\* the returned statuses; the status of one whose lookup or check fails is
\* NotPresent with no uid and no dependents, and met is false; the status is
\* Present with a uid only when every check succeeds.
C5_AbsentRequirement ==
    Done =>
        /\ Len(statuses) >= NumCRDs + NumAPIs
        /\ \A k \in 1..NumCRDs :
              /\ statuses[k].kind = "CustomResourceDefinition"
              /\ statuses[k].name = csv.crds[k]
              /\ statuses[k].dependents = <<>>
              /\ IF CRDExists(csv.crds[k])
                 THEN /\ statuses[k].status = "Present"
                      /\ statuses[k].uuid # ""
                 ELSE /\ statuses[k].status = "NotPresent"
                      /\ statuses[k].uuid = ""
                      /\ ~met
        /\ \A k \in 1..NumAPIs :
              LET s == statuses[NumCRDs + k]
              IN  /\ s.kind = "APIService"
                  /\ s.dependents = <<>>
                  /\ IF APIChecksSucceed(csv.apis[k])
                     THEN /\ s.status = "Present"
                          /\ s.uuid # ""
                     ELSE /\ s.status = "NotPresent"
                          /\ s.uuid = ""
                          /\ ~met

C5_Witness ==
    /\ Done
    /\ ~discoveryErr
    /\ \E k \in 1..NumAPIs :
          /\ csv.apis[k].kind = "K9"
          /\ statuses[NumCRDs + k].status = "NotPresent"
    /\ \E k \in 1..NumCRDs : statuses[k].status = "Present"
    /\ ~met

-----------------------------------------------------------------------------
(* C6 *)

\* C6: an identity whose lookup fails has the status NotPresent and no
\* dependents, whatever rules its permissions declare, and met is false; the
\* permissions after it are still handled, so every identity that exists has
\* one dependent per declared rule.
C6_MissingIdentity ==
    /\ \A sa \in DOMAIN statusesSet :
          sa \notin ClusterServiceAccounts =>
             /\ statusesSet[sa].status = RequirementStatusReasonNotPresent
             /\ statusesSet[sa].dependents = <<>>
             /\ ~permMet
    /\ (Done /\ Decodable) =>
          /\ \A sa \in DeclaredIdentities \ ClusterServiceAccounts :
                /\ ~met
                /\ EntriesFor(sa) # {}
                /\ \A k \in EntriesFor(sa) :
                      /\ PermissionStatuses[k].status = RequirementStatusReasonNotPresent
                      /\ PermissionStatuses[k].dependents = <<>>
          /\ \A sa \in DeclaredIdentities \cap ClusterServiceAccounts :
                /\ EntriesFor(sa) # {}
                /\ \A k \in EntriesFor(sa) :
                      Len(PermissionStatuses[k].dependents)
                          = Len(DeclaredRules(AllPermissions, sa))

C6_Witness ==
    /\ Done
    /\ Len(AllPermissions) >= 2
    /\ AllPermissions[1].serviceAccountName = "saX"
    /\ AllPermissions[1].rules # <<>>
    /\ AllPermissions[2].serviceAccountName = "saA"
    /\ AllPermissions[2].rules # <<>>
    /\ \E k \in EntriesFor("saX") :
          PermissionStatuses[k].status = RequirementStatusReasonNotPresent
    /\ \E k \in EntriesFor("saA") : PermissionStatuses[k].dependents # <<>>

-----------------------------------------------------------------------------
(* C7 *)

\* A rule that RuleSatisfied is asked about: one that could be serialized.
Evaluated(rule) == ~Marshal(rule).err

RuleHolds(sa, rule) ==
    LET r == RuleSatisfied(sa, CSVNamespace, rule) IN r.satisfied /\ ~r.err

C7_Dependents ==
    (Done /\ Decodable) =>
        \A sa \in DeclaredIdentities \cap ClusterServiceAccounts :
            LET rules == DeclaredRules(AllPermissions, sa)
            IN  /\ EntriesFor(sa) # {}
                /\ \A k \in EntriesFor(sa) :
                     LET s == PermissionStatuses[k]
                     IN  /\ Messages(s.dependents) = ExpectedMessages(sa)
                         /\ (\A r \in DOMAIN rules :
                                Evaluated(rules[r]) /\ RuleHolds(sa, rules[r]))
                            => /\ s.status = RequirementStatusReasonPresent
                               /\ \A d \in DOMAIN s.dependents :
                                    s.dependents[d].status = DependentStatusReasonSatisfied
                         /\ (\E r \in DOMAIN rules :
                                Evaluated(rules[r]) /\ ~RuleHolds(sa, rules[r]))
                            => /\ s.status = RequirementStatusReasonPresentNotSatisfied
                               /\ ~met

C7_NeverUpgraded ==
    \A sa \in DOMAIN statusesSet :
        statusesSet[sa].status # RequirementStatusReasonPresent
            => statusesSet'[sa].status # RequirementStatusReasonPresent

-----------------------------------------------------------------------------
(* C8 *)

RequestName == nameFor(resp.options.fieldSelector).name

RequestLabels == LabelSelectorOf(resp.options)

\* The records a List for (name, namespace, ls) is to return.
Selected(items, name, namespace, ls) ==
    SelectSeq(items, LAMBDA m :
        /\ LabelsMatch(ls, m.labels)
        /\ (name = "" \/ m.name = name)
        /\ (namespace = NamespaceAll \/ m.namespace = namespace))

\* C8: a List that succeeds returns, in the order of the provider, exactly
\* the records whose labels match the selector, whose name is the name filter
\* when there is one, and whose namespace is the requested one unless all
\* namespaces are requested; filtering by name and then by label gives the
\* same records as filtering by label and then by name.
C8_ListFilter ==
    (resp.op = "List" /\ resp.err = NoError) =>
        LET byName  == FilterItems(provItems, RequestName, resp.namespace, LabelsEverything)
            byLabel == FilterItems(provItems, "", resp.namespace, RequestLabels)
        IN  /\ resp.items = Selected(provItems, RequestName, resp.namespace, RequestLabels)
            /\ FilterItems(byName, "", resp.namespace, RequestLabels) = resp.items
            /\ FilterItems(byLabel, RequestName, resp.namespace, LabelsEverything) = resp.items

C8_Witness ==
    /\ resp.op = "List"
    /\ resp.err = NoError
    /\ resp.namespace = "ns1"
    /\ RequestName = "pkg-a"
    /\ RequestLabels = {<<"tier", "stable">>}
    /\ Len(resp.items) = 1
    /\ Len(provItems) > 1

-----------------------------------------------------------------------------
(* C9 *)

\* The fields of the requirements of the request that are not an exact
\* match on the name.
UnsupportedFields ==
    LET terms == resp.options.fieldSelector.terms
    IN  { terms[k].field : k \in { j \in DOMAIN terms :
                                     ~(terms[j].field = "metadata.name"
                                       /\ terms[j].op = "=") } }

\* C9 (as claimed): a List or Watch whose field selector has a requirement on
\* a field other than the name fails with an error that names an unsupported
\* field, also when the selector has an exact match on the name as well; the
\* provider is not called and no watcher is created.
C9_UnsupportedField ==
    (/\ resp.op \in {"List", "Watch"}
     /\ \E k \in DOMAIN resp.options.fieldSelector.terms :
           resp.options.fieldSelector.terms[k].field # "metadata.name")
    => /\ resp.err.msg = "field label not supported"
       /\ resp.err.field \in UnsupportedFields
       /\ ~resp.providerCalled
       /\ resp.watcher = 0

-----------------------------------------------------------------------------
(* C10 *)

C10_Closes ==
    \A w \in 1..MaxWatchers :
        watchers[w].cancelled ~> (watchers[w].state = "Closed")

C10_Released ==
    \A w \in 1..MaxWatchers :
        watchers[w].state = "Closed" =>
            /\ watchers[w].closed
            /\ ~watchers[w].subscribed
            /\ watchers[w].feed = <<>>

C10_Silent ==
    \A w \in 1..MaxWatchers :
        watchers[w].state = "Closed" =>
            /\ watchers'[w].state = "Closed"
            /\ watchers'[w].events = watchers[w].events
            /\ watchers'[w].provCalls = watchers[w].provCalls

C10_Independent ==
    \A w \in 1..MaxWatchers :
        (\/ watchers'[w].cancelled /\ ~watchers[w].cancelled
         \/ /\ watchers[w].cancelled
            /\ watchers[w].state # "Closed"
            /\ watchers'[w].state = "Closed")
        => \A v \in (1..MaxWatchers) \ {w} : watchers'[v] = watchers[v]

\* C10: a watcher whose context is cancelled while it is Initializing or
\* Streaming is eventually Closed; a Closed watcher has its channel closed
\* and its subscription released, emits no event and calls the provider no
\* more; the cancellation and the closing of one watcher leave every other
\* watcher as it is.
C10_Cancellation ==
    /\ C10_Closes
    /\ []C10_Released
    /\ [][C10_Silent /\ C10_Independent]_vars

C10_Witness ==
    \E w, v \in 1..MaxWatchers :
        /\ w # v
        /\ watchers[w].state = "Closed"
        /\ watchers[w].cancelled
        /\ watchers[v].state = "Streaming"
        /\ ~watchers[v].cancelled
        /\ Len(watchers[v].events) > Len(FilterItems(provItems, watchers[v].name,
                                             watchers[v].namespace,
                                             watchers[v].labelSelector))

====
